---- MODULE Spec2Model ----
(***************************************************************************)
(* Cliff Walking (13CliffWalk_Ch13.py): the grid environment with its      *)
(* precomputed transition table, the episode buffer, the one-hot state     *)
(* encoding, the backward return accumulation of REINFORCE.train_model and *)
(* the control flow of the two training loops.                             *)
(*                                                                         *)
(* numpy arrays are objects: a position is a function over the indices     *)
(* 0..1 (pos[0] is the row, pos[1] the column), and a reference to an      *)
(* array is either NoRef (the array self.pos is bound to) or the key       *)
(* <<i, j, a>> of the table entry whose new_pos array it is.               *)
(***************************************************************************)
EXTENDS Integers, Sequences, FiniteSets, TLC

VARIABLES
    pos,              \* CliffWalking.pos: the value of the array self.pos is bound to
    pos_alias,        \* the table entry whose array self.pos is bound to, or NoRef
    transmit_tensor,  \* CliffWalking.transmit_tensor
    state,            \* the caller's `state`: a reference to an array
    action,           \* the index of the last action taken
    next_state,       \* the caller's `next_state`: a reference to an array
    reward,           \* the last reward returned
    terminate,        \* the last terminal flag returned
    score,            \* the caller's running score of the rollout
    steps,            \* take_action calls since the last reset
    pc,               \* the caller's position in its loop
    memory,           \* ReplayPool.memory
    popped,           \* what the last pop_all() returned
    last_call,        \* the last ReplayPool method called
    enc_state,        \* the two positions given to convert_state2onehot
    state_one_hot,    \* state_one_hot and next_state_one_hot
    rewards,          \* train_model: rewards
    masks,            \* train_model: masks
    gamma,            \* train_model: gamma
    returns,          \* train_model: returns
    running_return,   \* train_model: running_return
    t,                \* train_model: the loop index, -1 after the loop
    algo,             \* the training entry point that runs
    e,                \* the episode index
    rollout,          \* the index of the evaluation rollout
    params,           \* optimizer.step() calls so far: the version of the parameters
    training          \* the module's training flag (model.train() / model.eval())

envVars == <<pos, pos_alias, transmit_tensor>>
callerVars == <<state, action, next_state, reward, terminate, score, steps, pc>>
poolVars == <<memory, popped, last_call>>
encVars == <<enc_state, state_one_hot>>
retVars == <<rewards, masks, gamma, returns, running_return, t>>
trainVars == <<algo, e, rollout, params, training>>
vars == <<pos, pos_alias, transmit_tensor, state, action, next_state, reward,
          terminate, score, steps, pc, memory, popped, last_call, enc_state,
          state_one_hot, rewards, masks, gamma, returns, running_return, t,
          algo, e, rollout, params, training>>

\* ---------------------------------------------------------------- bounds

\* take_action calls modelled per rollout
MaxSteps == 16

\* ------------------------------------------------------- CliffWalking

\* self.shape = (4, 12)
shape == <<4, 12>>

Rows == 0 .. (shape[1] - 1)
Cols == 0 .. (shape[2] - 1)

\* np.asarray([r, c])
Arr(r, c) == [k \in 0 .. 1 |-> IF k = 0 THEN r ELSE c]

Positions == {Arr(r, c) : r \in Rows, c \in Cols}

\* self.cliff: zeros, then cliff[-1, 1:-1] = 1
cliff == [i \in Rows |-> [j \in Cols |->
            i = shape[1] - 1 /\ j >= 1 /\ j < shape[2] - 1]]

\* self.actions
actions == [U |-> 0, D |-> 1, L |-> 2, R |-> 3]

ActionNames == {"U", "D", "L", "R"}

\* len(self.actions)
num_actions == Cardinality(ActionNames)

ActionIds == 0 .. (num_actions - 1)

\* self.action2shift
action2shift == [a \in ActionIds |->
                   CASE a = 0 -> Arr(-1, 0)
                     [] a = 1 -> Arr(1, 0)
                     [] a = 2 -> Arr(0, -1)
                     [] a = 3 -> Arr(0, 1)]

max(a, b) == IF a >= b THEN a ELSE b
min(a, b) == IF a <= b THEN a ELSE b

\* the four clamping assignments to new_pos
ClampNoUpperRow(p) ==
    Arr(max(p[0], 0), min(max(p[1], 0), shape[2] - 1))

Clamp(p) ==
    Arr(min(max(p[0], 0), shape[1] - 1), min(max(p[1], 0), shape[2] - 1))

StartPos == Arr(shape[1] - 1, 0)
GoalPos == Arr(shape[1] - 1, shape[2] - 1)

\* a bug of _cal_new_position_: the goal is tested on the new position
cal_new_position_GoalOnArrival(old_pos, a) ==
    LET moved == Clamp(Arr(old_pos[0] + action2shift[a][0],
                           old_pos[1] + action2shift[a][1]))
        fell == cliff[old_pos[0]][old_pos[1]]
        landed == IF fell THEN StartPos ELSE moved
    IN  IF landed[0] = shape[1] - 1 /\ landed[1] = shape[2] - 1
        THEN [new_pos |-> GoalPos, reward |-> 0, terminate |-> TRUE]
        ELSE [new_pos |-> landed,
              reward |-> IF fell THEN -100 ELSE -1,
              terminate |-> FALSE]

\* a bug of _cal_new_position_: the goal test comes first and the cliff test
\* is skipped for a move that lands on the goal
cal_new_position_CliffToGoal(old_pos, a) ==
    LET moved == Clamp(Arr(old_pos[0] + action2shift[a][0],
                           old_pos[1] + action2shift[a][1]))
        fell == cliff[old_pos[0]][old_pos[1]] /\ moved # GoalPos
        atGoal == old_pos[0] = shape[1] - 1 /\ old_pos[1] = shape[2] - 1
    IN  IF atGoal
        THEN [new_pos |-> GoalPos, reward |-> 0, terminate |-> TRUE]
        ELSE IF fell
        THEN [new_pos |-> StartPos, reward |-> -100, terminate |-> FALSE]
        ELSE [new_pos |-> moved, reward |-> -1, terminate |-> FALSE]

\* a bug of _cal_new_position_: stepping from the goal is an ordinary move
cal_new_position_GoalMoves(old_pos, a) ==
    LET moved == Clamp(Arr(old_pos[0] + action2shift[a][0],
                           old_pos[1] + action2shift[a][1]))
        fell == cliff[old_pos[0]][old_pos[1]]
    IN  IF fell
        THEN [new_pos |-> StartPos, reward |-> -100, terminate |-> FALSE]
        ELSE [new_pos |-> moved, reward |-> -1, terminate |-> FALSE]

\* a bug of _cal_new_position_: the row is not clamped from above
cal_new_position_NoClamp(old_pos, a) ==
    LET moved == ClampNoUpperRow(Arr(old_pos[0] + action2shift[a][0],
                                     old_pos[1] + action2shift[a][1]))
        inGrid == old_pos[0] \in Rows /\ old_pos[1] \in Cols
        fell == inGrid /\ cliff[old_pos[0]][old_pos[1]]
        atGoal == old_pos[0] = shape[1] - 1 /\ old_pos[1] = shape[2] - 1
    IN  IF atGoal
        THEN [new_pos |-> GoalPos, reward |-> 0, terminate |-> TRUE]
        ELSE IF fell
        THEN [new_pos |-> StartPos, reward |-> -100, terminate |-> FALSE]
        ELSE [new_pos |-> moved, reward |-> -1, terminate |-> FALSE]

\* CliffWalking._cal_new_position_(old_pos, action)
cal_new_position(old_pos, a) ==
    LET moved == Clamp(Arr(old_pos[0] + action2shift[a][0],
                           old_pos[1] + action2shift[a][1]))
        fell == cliff[old_pos[0]][old_pos[1]]
        \* reward = -1., terminate = False, then the cliff test on old_pos
        r1 == IF fell THEN -100 ELSE -1
        p1 == IF fell THEN StartPos ELSE moved
        \* then the goal test on old_pos
        atGoal == old_pos[0] = shape[1] - 1 /\ old_pos[1] = shape[2] - 1
    IN  [new_pos |-> IF atGoal THEN GoalPos ELSE p1,
         reward |-> IF atGoal THEN 0 ELSE r1,
         terminate |-> atGoal]

\* CliffWalking._build_transmit_tensor_()
build_transmit_tensor ==
    [i \in Rows |-> [j \in Cols |-> [a \in ActionIds |->
        cal_new_position(Arr(i, j), a)]]]

\* ------------------------------------------------------------ references

NoRef == <<>>

\* the array a reference denotes
Deref(ref) ==
    IF ref = NoRef THEN pos ELSE transmit_tensor[ref[1]][ref[2]][ref[3]].new_pos

\* a bug of take_action: the two assignments are written the wrong way round
\* (new_pos[k] = self.pos[k]), so the table's array is overwritten
take_action_SwappedWrite(a) ==
    LET key == <<pos[0], pos[1], a>>
        entry == transmit_tensor[pos[0]][pos[1]][a]
    IN  [pos |-> pos,
         pos_alias |-> pos_alias,
         transmit_tensor |->
            [transmit_tensor EXCEPT ![pos[0]][pos[1]][a].new_pos = pos],
         new_pos |-> key,
         reward |-> entry.reward,
         terminate |-> entry.terminate]

\* CliffWalking.take_action(action) for an integer action: the table entry at
\* the current position, its new_pos written element by element into the
\* array self.pos is bound to, and the entry's own objects returned
take_action(a) ==
    LET key == <<pos[0], pos[1], a>>
        entry == transmit_tensor[pos[0]][pos[1]][a]
    IN  [pos |-> entry.new_pos,
         pos_alias |-> pos_alias,
         transmit_tensor |->
            IF pos_alias = NoRef
            THEN transmit_tensor
            ELSE [transmit_tensor EXCEPT
                    ![pos_alias[1]][pos_alias[2]][pos_alias[3]].new_pos =
                        entry.new_pos],
         new_pos |-> key,
         reward |-> entry.reward,
         terminate |-> entry.terminate]

\* a bug of reset: the start array is built once and self.pos is left as it is
reset_Stale == [pos |-> pos, pos_alias |-> pos_alias]

\* CliffWalking.reset(): self.pos is bound to a new array holding the start
reset == [pos |-> StartPos, pos_alias |-> NoRef]

\* ------------------------------------------------- a caller of the environment

InitEnv ==
    /\ pos = StartPos
    /\ pos_alias = NoRef
    /\ transmit_tensor = build_transmit_tensor

\* the caller before its first call: _, reward, terminate = cw.transmit_tensor[3][0][0]
InitCaller ==
    /\ state = NoRef
    /\ action = actions.U
    /\ next_state = NoRef
    /\ reward = transmit_tensor[StartPos[0]][StartPos[1]][actions.U].reward
    /\ terminate = transmit_tensor[StartPos[0]][StartPos[1]][actions.U].terminate
    /\ score = 0
    /\ steps = 0
    /\ pc = "constructed"

\* no buffer, encoding, update or training loop in use
IdlePool == memory = <<>> /\ popped = <<>> /\ last_call = "none"
IdleEnc == enc_state = <<>> /\ state_one_hot = <<>>
IdleRet ==
    /\ rewards = <<>>
    /\ masks = <<>>
    /\ gamma = 1
    /\ returns = <<>>
    /\ running_return = 0
    /\ t = -1
IdleTrain ==
    /\ algo = "none"
    /\ e = 0
    /\ rollout = 0
    /\ params = 0
    /\ training = FALSE

Init == InitEnv /\ InitCaller /\ IdlePool /\ IdleEnc /\ IdleRet /\ IdleTrain

\* terminate = False; score = 0.; state = env.reset()
Reset ==
    /\ pc \in {"constructed", "after_reset", "after_advance"}
    /\ pos' = reset.pos
    /\ pos_alias' = reset.pos_alias
    /\ state' = NoRef
    /\ terminate' = FALSE
    /\ score' = 0
    /\ steps' = 0
    /\ pc' = "after_reset"
    /\ UNCHANGED <<transmit_tensor, action, next_state, reward>>
    /\ UNCHANGED <<poolVars, encVars, retVars, trainVars>>

\* the effect of next_state, reward, terminate = env.take_action(a); score += reward
Stepped(a) ==
    LET r == take_action(a)
    IN  /\ pos' = r.pos
        /\ pos_alias' = r.pos_alias
        /\ transmit_tensor' = r.transmit_tensor
        /\ action' = a
        /\ next_state' = r.new_pos
        /\ reward' = r.reward
        /\ terminate' = r.terminate
        /\ score' = score + r.reward
        /\ steps' = steps + 1
        /\ pc' = "after_take_action"
        /\ UNCHANGED state

\* take_action with an integer action (the else branch)
TakeAction ==
    /\ pc \in {"constructed", "after_reset", "after_advance"}
    /\ steps < MaxSteps
    /\ \E a \in ActionIds : Stepped(a)
    /\ UNCHANGED <<poolVars, encVars, retVars, trainVars>>

\* take_action with a string action: self.actions[action] is the index
TakeActionStr ==
    /\ pc \in {"constructed", "after_reset", "after_advance"}
    /\ steps < MaxSteps
    /\ \E name \in ActionNames : Stepped(actions[name])
    /\ UNCHANGED <<poolVars, encVars, retVars, trainVars>>

\* state = next_state
Advance ==
    /\ pc = "after_take_action"
    /\ state' = next_state
    /\ pc' = "after_advance"
    /\ UNCHANGED <<pos, pos_alias, transmit_tensor, action, next_state, reward,
                   terminate, score, steps>>
    /\ UNCHANGED <<poolVars, encVars, retVars, trainVars>>

Next == Reset \/ TakeAction \/ TakeActionStr \/ Advance

Spec == Init /\ [][Next]_vars

\* ---------------------------------------------------------------- claims

IsCliff(p) == cliff[p[0]][p[1]]

InGrid(p) == p[0] \in Rows /\ p[1] \in Cols

\* the step is a take_action call
IsTakeAction == pc # "after_take_action" /\ pc' = "after_take_action"

\* C1: take_action called while the environment's position is a cliff cell
\* returns reward -100, the start cell as next position and terminal = false,
\* and leaves the environment's position at the start cell, for every action
\* (also from (3,10) with Right, whose clamped move lands on the goal).
C1_CliffStep ==
    [][(IsTakeAction /\ IsCliff(pos)) =>
          /\ reward' = -100
          /\ Deref(next_state)' = StartPos
          /\ terminate' = FALSE
          /\ pos' = StartPos]_vars

C1_Witness ==
    /\ pc = "after_take_action"
    /\ state # NoRef
    /\ Deref(state) = Arr(3, 10)
    /\ action = actions.R
    /\ reward = -100
    /\ pos = StartPos

\* C2: take_action called while the environment's position is the goal
\* returns the goal, reward 0 and terminal = true and leaves the position at
\* the goal, so every step taken from the goal until a reset is such a step.
C2_GoalStep ==
    [][(IsTakeAction /\ pos = GoalPos) =>
          /\ reward' = 0
          /\ Deref(next_state)' = GoalPos
          /\ terminate' = TRUE
          /\ pos' = GoalPos
          /\ score' = score]_vars

C2_Witness ==
    /\ pc = "after_take_action"
    /\ state # NoRef
    /\ Deref(state) = GoalPos
    /\ terminate
    /\ reward = 0
    /\ pos = GoalPos
    /\ steps >= 15

\* C3: reset() sets the environment's position to the start cell and returns
\* the start cell, whatever the position was before (a cliff cell, the goal).
C3_Reset ==
    [][pc' = "after_reset" =>
          /\ pos' = StartPos
          /\ state' = NoRef
          /\ Deref(state)' = StartPos]_vars

\* a reset called while the position, still held by next_state, was a cliff cell
C3_Witness ==
    /\ pc = "after_reset"
    /\ next_state # NoRef
    /\ IsCliff(Deref(next_state))
    /\ pos = StartPos

\* C4: the next position take_action returns is inside the 4x12 grid, for
\* every position that is neither a cliff cell nor the goal and every action,
\* and so is the environment's position after any sequence of calls.
C4_InGrid ==
    /\ InGrid(pos)
    /\ InGrid(Deref(next_state))
    /\ InGrid(Deref(state))
    /\ \A p \in Positions, a \in ActionIds :
          (~IsCliff(p) /\ p # GoalPos) =>
              InGrid(transmit_tensor[p[0]][p[1]][a].new_pos)

\* a move off the bottom edge from the start cell, clamped to the start cell
C4_Witness ==
    /\ pc = "after_take_action"
    /\ steps = 1
    /\ action = actions.D
    /\ pos = StartPos
    /\ reward = -1

\* C7: no sequence of reset and take_action calls changes an entry of the
\* transition table.
C7_TableImmutable ==
    /\ transmit_tensor = build_transmit_tensor
    /\ pos_alias = NoRef

C7_Witness ==
    /\ pc = "after_take_action"
    /\ steps >= 2
    /\ Deref(next_state) = pos
    /\ next_state # NoRef

\* C9: a rollout that runs from a reset until take_action returns
\* terminal = true sums rewards of at most -13, and -13 is reached by a
\* rollout that never stands on a cliff cell.
C9_ScoreAtMostOptimal == terminate => score <= -13

C9_Witness ==
    /\ pc = "after_take_action"
    /\ terminate
    /\ score = -13
    /\ steps = 14

\* ------------------------------------------------------ convert_state2onehot

\* state_shape[0] * state_shape[1], and the default of state_dim
StateDim == shape[1] * shape[2]

\* convert_state2onehot(state, state_dim): zeros with a 1. at index
\* state[0] * 5 + state[1]; an index past the end raises IndexError
convert_state2onehot(st, state_dim) ==
    LET idx == st[0] * 5 + st[1]
    IN  IF idx \in 0 .. (state_dim - 1)
        THEN [k \in 0 .. (state_dim - 1) |-> IF k = idx THEN 1 ELSE 0]
        ELSE "IndexError"

\* the encoding applied to a state and a next state, as each loop iteration does
InitOneHot ==
    /\ InitEnv /\ InitCaller /\ IdlePool /\ IdleRet /\ IdleTrain
    /\ enc_state \in Positions \X Positions
    /\ state_one_hot = <<>>

ConvertStates ==
    /\ state_one_hot = <<>>
    /\ state_one_hot' = <<convert_state2onehot(enc_state[1], StateDim),
                          convert_state2onehot(enc_state[2], StateDim)>>
    /\ UNCHANGED <<envVars, callerVars, poolVars, retVars, trainVars, enc_state>>

NextOneHot == ConvertStates

SpecOneHot == InitOneHot /\ [][NextOneHot]_vars

\* the indices a vector sets
HotIndices(v) == {k \in DOMAIN v : v[k] = 1}

\* C6: convert_state2onehot sets exactly one index in 0..47 for every
\* position, and two different positions are given two different indices.
C6_OneHotIdentifiesPosition ==
    state_one_hot # <<>> =>
        /\ \A n \in 1 .. 2 :
              /\ DOMAIN state_one_hot[n] = 0 .. 47
              /\ Cardinality(HotIndices(state_one_hot[n])) = 1
        /\ (state_one_hot[1] = state_one_hot[2] => enc_state[1] = enc_state[2])

\* ---------------------------------------------------------------- ReplayPool

\* the transitions the buffer is given before it is full
MaxPool == 3

\* Transition = namedtuple('Transition', ('state', 'next_state', 'action', 'reward', 'mask'))
Transition(s, n, a, r, m) ==
    [state |-> s, next_state |-> n, action |-> a, reward |-> r, mask |-> m]

\* ReplayPool.push(state, next_state, action, reward, mask)
push(s, n, a, r, m) == Append(memory, Transition(s, n, a, r, m))

\* zip(*memory): one tuple per field
Zip(mem) ==
    Transition([k \in 1 .. Len(mem) |-> mem[k].state],
               [k \in 1 .. Len(mem) |-> mem[k].next_state],
               [k \in 1 .. Len(mem) |-> mem[k].action],
               [k \in 1 .. Len(mem) |-> mem[k].reward],
               [k \in 1 .. Len(mem) |-> mem[k].mask])

\* ReplayPool.pop_all(): Transition(*zip(*memory)); self.memory is not
\* assigned. With no transition stored zip yields nothing and Transition()
\* raises TypeError.
pop_all ==
    [memory |-> memory,
     result |-> IF Len(memory) = 0 THEN "TypeError" ELSE Zip(memory)]

\* ReplayPool.reset(): self.memory = deque()
pool_reset == <<>>

\* ReplayPool.__len__()
pool_len == Len(memory)

\* action_one_hot = torch.zeros(output_dim); action_one_hot[action] = 1
action_one_hot(a) == [k \in ActionIds |-> IF k = a THEN 1 ELSE 0]

\* the arguments of the push of one loop iteration of train_REINFORCE, for the
\* step with action a taken at position p
PushArgs(p, a) ==
    LET entry == transmit_tensor[p[0]][p[1]][a]
    IN  Transition(convert_state2onehot(p, StateDim),
                   convert_state2onehot(entry.new_pos, StateDim),
                   action_one_hot(a),
                   entry.reward,
                   IF entry.terminate THEN 0 ELSE 1)

\* the steps whose transitions the buffer is given
SamplePositions == {StartPos, GoalPos}
SampleActions == {actions.U, actions.R}

InitPool ==
    /\ InitEnv /\ InitCaller /\ IdlePool /\ IdleEnc /\ IdleRet /\ IdleTrain

Push ==
    /\ pool_len < MaxPool
    /\ \E p \in SamplePositions, a \in SampleActions :
          LET tr == PushArgs(p, a)
          IN  memory' = push(tr.state, tr.next_state, tr.action, tr.reward, tr.mask)
    /\ last_call' = "push"
    /\ UNCHANGED <<envVars, callerVars, encVars, retVars, trainVars, popped>>

PopAll ==
    /\ memory' = pop_all.memory
    /\ popped' = pop_all.result
    /\ last_call' = "pop_all"
    /\ UNCHANGED <<envVars, callerVars, encVars, retVars, trainVars>>

PoolReset ==
    /\ memory' = pool_reset
    /\ last_call' = "reset"
    /\ UNCHANGED <<envVars, callerVars, encVars, retVars, trainVars, popped>>

NextPool == Push \/ PopAll \/ PoolReset

SpecPool == InitPool /\ [][NextPool]_vars

\* C5: pop_all returns the accumulated transitions and clears the buffer:
\* right after pop_all() the buffer's length is 0.
C5_DrainClears == last_call = "pop_all" => pool_len = 0

\* --------------------------------------------------- REINFORCE.train_model

\* the longest episode whose returns are computed
MaxLen == 4

\* the rewards the environment gives, and the two values of a mask
RewardValues == {cal_new_position(p, a).reward : p \in Positions, a \in ActionIds}
MaskValues == {0, 1}
Gammas == {0, 1}

\* a bug of the accumulation: the mask is left out
accumulate_NoMask(r, g, rr, m) == r + g * rr

\* rewards[t] + gamma * running_return * masks[t]
accumulate(r, g, rr, m) == r + g * rr * m

\* rewards and masks of one episode, gamma; returns = torch.zeros_like(rewards);
\* running_return = 0; the loop starts at t = len(rewards) - 1
InitReturns ==
    /\ InitEnv /\ InitCaller /\ IdlePool /\ IdleEnc /\ IdleTrain
    /\ \E n \in 1 .. MaxLen :
          /\ rewards \in [0 .. (n - 1) -> RewardValues]
          /\ masks \in [0 .. (n - 1) -> MaskValues]
          /\ returns = [k \in 0 .. (n - 1) |-> 0]
          /\ t = n - 1
    /\ gamma \in Gammas
    /\ running_return = 0

\* one iteration of: for t in reversed(range(len(rewards)))
ReturnsStep ==
    /\ t >= 0
    /\ running_return' = accumulate(rewards[t], gamma, running_return, masks[t])
    /\ returns' = [returns EXCEPT ![t] = running_return']
    /\ t' = t - 1
    /\ UNCHANGED <<envVars, callerVars, poolVars, encVars, trainVars,
                   rewards, masks, gamma>>

NextReturns == ReturnsStep

SpecReturns == InitReturns /\ [][NextReturns]_vars

\* a vector given by its elements
Vec(sq) == [k \in 0 .. (Len(sq) - 1) |-> sq[k + 1]]

\* C8: after the loop, return[n-1] = reward[n-1] and return[t] = reward[t] +
\* gamma * mask[t] * return[t+1] for t < n-1; with gamma = 1, rewards
\* [-1,-1,-1,0] and masks [1,1,1,0] the returns are [-3,-2,-1,0].
C8_BackwardReturns ==
    t = -1 =>
        LET n == Cardinality(DOMAIN rewards)
        IN  /\ returns[n - 1] = rewards[n - 1]
            /\ \A k \in 0 .. (n - 2) :
                  returns[k] = rewards[k] + gamma * masks[k] * returns[k + 1]
            /\ (/\ gamma = 1
                /\ rewards = Vec(<<-1, -1, -1, 0>>)
                /\ masks = Vec(<<1, 1, 1, 0>>))
               => returns = Vec(<<-3, -2, -1, 0>>)

C8_Witness ==
    /\ t = -1
    /\ gamma = 1
    /\ rewards = Vec(<<-1, -1, -1, 0>>)
    /\ masks = Vec(<<1, 1, 1, 0>>)
    /\ returns = Vec(<<-3, -2, -1, 0>>)

\* ------------------------------------- train_REINFORCE and train_ActorCritic

\* for e in range(6000), with fewer episodes: test_interval + 1 reach the
\* first evaluation block
NumEpisodes == 21

\* for _ in range(100), with fewer rollouts
NumRollouts == 2

\* take_action calls modelled per episode and per evaluation rollout
MaxEpisodeSteps == 14

\* test_interval = 20
test_interval == 20

\* the tensors and numbers pushed by an iteration, by name: the loops' buffer
\* is followed by its length, its contents are those of SpecPool
PushedNames ==
    Transition("state_one_hot", "next_state_one_hot", "action_one_hot",
               "reward", "mask")

\* model = ...; optimizer = ...; model.train(); replay_pool = ReplayPool()
InitTrain ==
    /\ InitEnv /\ InitCaller /\ IdlePool /\ IdleEnc /\ IdleRet
    /\ algo \in {"REINFORCE", "ActorCritic"}
    /\ e = 0
    /\ rollout = 0
    /\ params = 0
    /\ training = TRUE

\* the effect of env.reset() on the environment
EnvReset ==
    /\ pos' = reset.pos
    /\ pos_alias' = reset.pos_alias
    /\ UNCHANGED transmit_tensor

\* the effect of next_state, reward, terminate = env.take_action(action)
\* followed by state = next_state
EnvStep(a) ==
    LET r == take_action(a)
    IN  /\ pos' = r.pos
        /\ pos_alias' = r.pos_alias
        /\ transmit_tensor' = r.transmit_tensor
        /\ action' = a
        /\ next_state' = r.new_pos
        /\ reward' = r.reward
        /\ terminate' = r.terminate
        /\ state' = r.new_pos
        /\ steps' = steps + 1

\* train_REINFORCE: state = env.reset(); terminate = False; replay_pool.reset()
R_EpisodeStart ==
    /\ algo = "REINFORCE" /\ pc \in {"constructed", "episode"}
    /\ e < NumEpisodes
    /\ EnvReset
    /\ state' = NoRef
    /\ terminate' = FALSE
    /\ steps' = 0
    /\ memory' = pool_reset
    /\ last_call' = "reset"
    /\ pc' = "collect"
    /\ UNCHANGED <<action, next_state, reward, score, popped>>
    /\ UNCHANGED <<encVars, retVars, trainVars>>

\* train_REINFORCE: one iteration of the episode's while loop
R_Collect ==
    /\ algo = "REINFORCE" /\ pc = "collect"
    /\ ~terminate
    /\ steps < MaxEpisodeSteps
    /\ \E a \in ActionIds : EnvStep(a)
    /\ memory' = push(PushedNames.state, PushedNames.next_state,
                      PushedNames.action, PushedNames.reward, PushedNames.mask)
    /\ last_call' = "push"
    /\ UNCHANGED <<score, pc, popped>>
    /\ UNCHANGED <<encVars, retVars, trainVars>>

\* train_REINFORCE: loss = model.train_model(model, replay_pool.pop_all(), optimizer)
R_Update ==
    /\ algo = "REINFORCE" /\ pc = "collect"
    /\ terminate
    /\ memory' = pop_all.memory
    /\ popped' = pop_all.result
    /\ last_call' = "pop_all"
    /\ params' = params + 1
    /\ pc' = "test"
    /\ UNCHANGED <<envVars, state, action, next_state, reward, terminate, score, steps>>
    /\ UNCHANGED <<encVars, retVars, algo, e, rollout, training>>

\* train_REINFORCE: if e % test_interval == 0 and not e == 0: scores = []
R_Test ==
    /\ algo = "REINFORCE" /\ pc = "test"
    /\ IF e % test_interval = 0 /\ ~(e = 0)
       THEN rollout' = 0 /\ pc' = "eval" /\ e' = e
       ELSE rollout' = rollout /\ pc' = "episode" /\ e' = e + 1
    /\ UNCHANGED <<envVars, state, action, next_state, reward, terminate, score, steps>>
    /\ UNCHANGED <<poolVars, encVars, retVars, algo, params, training>>

\* train_REINFORCE: terminate = False; score = 0.; state = env.reset()
R_RolloutStart ==
    /\ algo = "REINFORCE" /\ pc = "eval"
    /\ rollout < NumRollouts
    /\ EnvReset
    /\ state' = NoRef
    /\ terminate' = FALSE
    /\ score' = 0
    /\ steps' = 0
    /\ pc' = "rollout"
    /\ UNCHANGED <<action, next_state, reward>>
    /\ UNCHANGED <<poolVars, encVars, retVars, trainVars>>

\* train_REINFORCE: one iteration of the rollout's while loop
R_RolloutStep ==
    /\ algo = "REINFORCE" /\ pc = "rollout"
    /\ ~terminate
    /\ steps < MaxEpisodeSteps
    /\ \E a \in ActionIds : EnvStep(a) /\ score' = score + take_action(a).reward
    /\ UNCHANGED pc
    /\ UNCHANGED <<poolVars, encVars, retVars, trainVars>>

\* train_REINFORCE: scores.append(score)
R_RolloutEnd ==
    /\ algo = "REINFORCE" /\ pc = "rollout"
    /\ terminate
    /\ rollout' = rollout + 1
    /\ pc' = "eval"
    /\ UNCHANGED <<envVars, state, action, next_state, reward, terminate, score, steps>>
    /\ UNCHANGED <<poolVars, encVars, retVars, algo, e, params, training>>

\* train_REINFORCE: print(e, np.mean(scores)) and the next episode
R_EvalEnd ==
    /\ algo = "REINFORCE" /\ pc = "eval"
    /\ rollout = NumRollouts
    /\ e' = e + 1
    /\ pc' = "episode"
    /\ UNCHANGED <<envVars, state, action, next_state, reward, terminate, score, steps>>
    /\ UNCHANGED <<poolVars, encVars, retVars, algo, rollout, params, training>>

\* train_ActorCritic: state = env.reset(); terminate = False
AC_EpisodeStart ==
    /\ algo = "ActorCritic" /\ pc \in {"constructed", "episode"}
    /\ e < NumEpisodes
    /\ EnvReset
    /\ state' = NoRef
    /\ terminate' = FALSE
    /\ steps' = 0
    /\ pc' = "collect"
    /\ UNCHANGED <<action, next_state, reward, score>>
    /\ UNCHANGED <<poolVars, encVars, retVars, trainVars>>

\* a bug of the evaluation loop: the rollout's iteration updates the model as
\* the episode's iteration does
AC_RolloutStep_Trains ==
    /\ algo = "ActorCritic" /\ pc = "rollout"
    /\ ~terminate
    /\ steps < MaxEpisodeSteps
    /\ \E a \in ActionIds : EnvStep(a) /\ score' = score + take_action(a).reward
    /\ params' = params + 1
    /\ UNCHANGED pc
    /\ UNCHANGED <<poolVars, encVars, retVars, algo, e, rollout, training>>

\* train_ActorCritic: one iteration of the episode's while loop, with its
\* loss = model.train_model(model, transition, optimizer)
AC_Collect ==
    /\ algo = "ActorCritic" /\ pc = "collect"
    /\ ~terminate
    /\ steps < MaxEpisodeSteps
    /\ \E a \in ActionIds : EnvStep(a)
    /\ params' = params + 1
    /\ UNCHANGED <<score, pc>>
    /\ UNCHANGED <<poolVars, encVars, retVars, algo, e, rollout, training>>

\* train_ActorCritic: if e % test_interval == 0 and (not e == 0): scores = [];
\* model.eval()
AC_Test ==
    /\ algo = "ActorCritic" /\ pc = "collect"
    /\ terminate
    /\ IF e % test_interval = 0 /\ ~(e = 0)
       THEN rollout' = 0 /\ training' = FALSE /\ pc' = "eval" /\ e' = e
       ELSE rollout' = rollout /\ training' = training /\ pc' = "episode" /\ e' = e + 1
    /\ UNCHANGED <<envVars, state, action, next_state, reward, terminate, score, steps>>
    /\ UNCHANGED <<poolVars, encVars, retVars, algo, params>>

\* train_ActorCritic: terminate = False; state = env.reset(); score = 0
AC_RolloutStart ==
    /\ algo = "ActorCritic" /\ pc = "eval"
    /\ rollout < NumRollouts
    /\ EnvReset
    /\ state' = NoRef
    /\ terminate' = FALSE
    /\ score' = 0
    /\ steps' = 0
    /\ pc' = "rollout"
    /\ UNCHANGED <<action, next_state, reward>>
    /\ UNCHANGED <<poolVars, encVars, retVars, trainVars>>

\* train_ActorCritic: one iteration of the rollout's while loop
AC_RolloutStep ==
    /\ algo = "ActorCritic" /\ pc = "rollout"
    /\ ~terminate
    /\ steps < MaxEpisodeSteps
    /\ \E a \in ActionIds : EnvStep(a) /\ score' = score + take_action(a).reward
    /\ UNCHANGED pc
    /\ UNCHANGED <<poolVars, encVars, retVars, trainVars>>

\* train_ActorCritic: scores.append(score)
AC_RolloutEnd ==
    /\ algo = "ActorCritic" /\ pc = "rollout"
    /\ terminate
    /\ rollout' = rollout + 1
    /\ pc' = "eval"
    /\ UNCHANGED <<envVars, state, action, next_state, reward, terminate, score, steps>>
    /\ UNCHANGED <<poolVars, encVars, retVars, algo, e, params, training>>

\* train_ActorCritic: model.train(); print(...) and the next episode
AC_EvalEnd ==
    /\ algo = "ActorCritic" /\ pc = "eval"
    /\ rollout = NumRollouts
    /\ training' = TRUE
    /\ e' = e + 1
    /\ pc' = "episode"
    /\ UNCHANGED <<envVars, state, action, next_state, reward, terminate, score, steps>>
    /\ UNCHANGED <<poolVars, encVars, retVars, algo, rollout, params>>

\* the for loop over the episodes is exhausted and the function returns
TrainReturn ==
    /\ pc = "episode"
    /\ e = NumEpisodes
    /\ pc' = "done"
    /\ UNCHANGED <<envVars, state, action, next_state, reward, terminate, score, steps>>
    /\ UNCHANGED <<poolVars, encVars, retVars, trainVars>>

NextTrain ==
    \/ R_EpisodeStart \/ R_Collect \/ R_Update \/ R_Test
    \/ R_RolloutStart \/ R_RolloutStep \/ R_RolloutEnd \/ R_EvalEnd
    \/ AC_EpisodeStart \/ AC_Collect \/ AC_Test
    \/ AC_RolloutStart \/ AC_RolloutStep \/ AC_RolloutEnd \/ AC_EvalEnd
    \/ TrainReturn

SpecTrain == InitTrain /\ [][NextTrain]_vars

\* inside the evaluation block
InEval == pc \in {"eval", "rollout"}

\* C10: from the start to the end of the evaluation block of either loop no
\* step changes the parameters, so they are after the block what they were
\* before it.
C10_EvalKeepsParams == [][(InEval \/ InEval') => params' = params]_vars

\* the end of an evaluation block of train_ActorCritic, after its rollouts
C10_Witness ==
    /\ algo = "ActorCritic"
    /\ pc = "eval"
    /\ rollout = NumRollouts
    /\ e = test_interval
    /\ params > 0
    /\ terminate

====
